---- MODULE Spec2Model ----
(***************************************************************************)
(* A model of bird_cv's split guidance pipeline: get_label_tables turns    *)
(* annotated tracks into the frame table, split_camera_data partitions the *)
(* cameras into train / val / test and, for train and val, runs            *)
(* subsample_frames and sample_resting_frames and writes the lookup table. *)
(* Two more components have their own specifications: process_item of      *)
(* annotations_to_yolo (SpecYolo), which extracts the frames a guidance    *)
(* table names, and get_label_studio_annotations (SpecServer), which       *)
(* launches a Label Studio server, exports a project and closes the server.*)
(*                                                                         *)
(* Tables are functions or sets of records.  A polars null inside a list   *)
(* of frames is the integer NullFrame (frames of the inputs are >= 0); a   *)
(* null list is a row whose target_null is TRUE.                           *)
(***************************************************************************)
EXTENDS Integers, Sequences, FiniteSets, TLC

\* ---------------------------------------------------------------- bounds
NumVideos == 3
MaxFrames == 4
MaxTracks == 2
MaxSeed == 1
RatioDen == 4
MaxFps == 2
MaxPort == 3

\* get_label_studio_client: for attempt in range(30)
MaxAttempts == 30

Videos == 1..NumVideos
Labels == {"A", "B", "Resting"}
NullFrame == 0 - 1

\* ------------------------------------------------------- library helpers
RECURSIVE SortedSeq(_)
\* pl.Expr.sort on a set of integers (nulls, being NullFrame, come first)
SortedSeq(S) ==
    IF S = {} THEN <<>>
    ELSE LET m == CHOOSE x \in S : \A y \in S : x <= y
         IN  <<m>> \o SortedSeq(S \ {m})

SeqToSet(s) == {s[i] : i \in 1..Len(s)}

RemoveAt(s, i) == SubSeq(s, 1, i - 1) \o SubSeq(s, i + 1, Len(s))

RECURSIVE Draw(_, _, _)
\* n successive draws without replacement from pool, the generator state k
\* deciding each draw: a deterministic function of (pool, n, k) that yields
\* every ordered selection for some k.
Draw(pool, n, k) ==
    IF n <= 0 \/ pool = <<>> THEN <<>>
    ELSE LET i == (k % Len(pool)) + 1
         IN  <<pool[i]>> \o Draw(RemoveAt(pool, i), n - 1, k \div Len(pool))

\* np.random.seed(seed); np.random.permutation(n): a permutation of 0..n-1
permutation(seed, n) == Draw([i \in 1..n |-> i - 1], n, seed)

\* a half rounded up
round_half_up(num, den) == (2 * num + den) \div (2 * den)

\* Python's round() on the fraction num / den: round half to even
round(num, den) ==
    LET q == num \div den
        r == num % den
    IN  IF 2 * r < den THEN q
        ELSE IF 2 * r > den THEN q + 1
        ELSE IF q % 2 = 0 THEN q ELSE q + 1

Min(a, b) == IF a < b THEN a ELSE b

\* a slice bound as Python places it: a negative bound counts from the end,
\* and the result is kept within 0..n
SliceBound(a, n) ==
    IF a < 0 THEN (IF a + n < 0 THEN 0 ELSE a + n) ELSE Min(a, n)

\* Python slice s[a:b]
Slice(s, a, b) == SubSeq(s, SliceBound(a, Len(s)) + 1, SliceBound(b, Len(s)))

\* DataFrame.unique() without maintain_order: the distinct rows in any order
Orderings(S) ==
    {s \in [1..Cardinality(S) -> S] : \A i, j \in 1..Cardinality(S) : s[i] = s[j] => i = j}

\* ----------------------------------------------------------------- state
VARIABLES
    video_data,     \* video_id -> [camera_id, framesCount, duration, video_path]
    annotations,    \* the annotated tracks: <<[video_id, label, first, last]>>
    split_ratio,    \* key -> numerator over RatioDen, for the keys given
    random_seed,
    frame_data,     \* the frame table written by get_label_tables
    cameras,        \* the distinct cameras, in the order unique() gave
    indices,        \* the seeded permutation
    test_idx,       \* the rest of the permutation: the rows of the test cameras
    split_cameras,  \* [train, val]: the camera groups the loop goes through
    split,          \* the split the loop is at
    subsampled,     \* split -> the table subsample_frames returned
    split_frames,   \* the table sample_resting_frames returned
    lookup,         \* split -> the table written
    written,        \* the splits whose lookup file was written
    raised,         \* the function whose exception ended the run, or "none"
    pc,
    \* process_item (annotations_to_yolo)
    guidance,       \* the guidance table: [columns, rows]
    item,           \* the annotation item: [video, frames]
    cap,            \* the video capture: [fps, frames, index]
    remapped,       \* target_frames after line 115
    frame_num,
    image_files,    \* the cv2.imwrite calls so far: <<[split, video, frame]>>
    label_files,    \* the label files written so far: <<[split, video, frame, lines]>>
    columns_read,   \* the columns of the guidance read so far
    item_raised,    \* the exception that ended process_item, or "none"
    item_pc,
    \* get_label_studio_annotations
    busy,           \* the ports that cannot be bound
    projects,       \* the titles of the projects of the server
    export_status,  \* the status the server gives the export snapshot
    start_port,     \* the port argument of get_label_studio_annotations
    port,           \* find_open_port: the port to probe next
    probes,         \* the ports probed so far, in order
    open_port,
    popen_calls,    \* the ports a server was launched on, in order
    server_running, \* a launched server process is alive
    attempt,        \* the connection attempts made
    sleeps,         \* the time.sleep(1) calls made
    client,         \* "none", or "connected" once whoami succeeded
    project_id,
    exported,       \* the annotations file was written
    close_calls,    \* the ports close_server was called with, in order
    ls_raised,      \* the exception that ended the run, or "none"
    ls_pc

yolo_vars == <<guidance, item, cap, remapped, frame_num, image_files, label_files,
               columns_read, item_raised, item_pc>>

split_vars == <<video_data, annotations, split_ratio, random_seed, frame_data, cameras,
                indices, test_idx, split_cameras, split, subsampled, split_frames, lookup,
                written, raised, pc>>

server_vars == <<busy, projects, export_status, start_port, port, probes, open_port, popen_calls,
                 server_running, attempt, sleeps, client, project_id, exported,
                 close_calls, ls_raised, ls_pc>>

vars == <<split_vars, yolo_vars, server_vars>>

inputs == <<video_data, annotations, split_ratio, random_seed>>

\* ------------------------------------------------------ get_label_tables
\* frame_end left as the last frame of the track
label_table_row_not_widened(i) ==
    LET a == annotations[i]
    IN  [track_id    |-> i,
         video_id    |-> a.video_id,
         label       |-> a.label,
         frame_begin |-> a.first,
         frame_end   |-> a.last]

\* frames: first / last frame of each track; frame_end of a single-frame
\* track is replaced by the video's framesCount
label_table_row(i) ==
    LET a == annotations[i]
    IN  [track_id    |-> i,
         video_id    |-> a.video_id,
         label       |-> a.label,
         frame_begin |-> a.first,
         frame_end   |-> IF a.first = a.last
                         THEN video_data[a.video_id].framesCount
                         ELSE a.last]

GetLabelTables ==
    /\ pc = "get_label_tables"
    /\ UNCHANGED <<yolo_vars, server_vars>>
    /\ frame_data' = [i \in 1..Len(annotations) |-> label_table_row(i)]
    /\ pc' = "partition"
    /\ UNCHANGED <<inputs, cameras, indices, test_idx, split_cameras, split, subsampled,
                   split_frames, lookup, written, raised>>

\* ---------------------------------------------- split_camera_data: split
CameraSet == {video_data[v].camera_id : v \in Videos}

\* cameras[idx] for a list of 0-based row indices
take(cams, idx) == [i \in 1..Len(idx) |-> cams[idx[i] + 1]]

\* the val slice taken from the start of the permutation instead of after train
np_split_val_from_start(perm, n_train, n_val) ==
    [train |-> Slice(perm, 0, n_train),
     val   |-> Slice(perm, 0, n_val),
     test  |-> Slice(perm, n_train + n_val, Len(perm))]

\* line 46: np.split(indices, [n_train, n_train + n_val])
np_split(perm, n_train, n_val) ==
    [train |-> Slice(perm, 0, n_train),
     val   |-> Slice(perm, n_train, n_train + n_val),
     test  |-> Slice(perm, n_train + n_val, Len(perm))]

\* lines 42-46: train_idx, val_idx, test_idx for n_cameras cameras
split_indices(n_cameras, seed, ratio) ==
    np_split(permutation(seed, n_cameras),
             round(ratio.train * n_cameras, RatioDen),
             round(ratio.val * n_cameras, RatioDen))

\* the val group taking the rest of the permutation with it
camera_groups_val_with_rest(cams, seed, ratio) ==
    [train |-> take(cams, split_indices(Len(cams), seed, ratio).train),
     val   |-> take(cams, split_indices(Len(cams), seed, ratio).val
                             \o split_indices(Len(cams), seed, ratio).test)]

\* lines 48-50: the train and val groups for one enumeration of the cameras
camera_groups(cams, seed, ratio) ==
    [train |-> take(cams, split_indices(Len(cams), seed, ratio).train),
     val   |-> take(cams, split_indices(Len(cams), seed, ratio).val)]

\* lines 33-50; split_ratio["train"] and split_ratio["val"] are read after the
\* permutation is drawn, and a key that is not there raises KeyError
Partition ==
    /\ pc = "partition"
    /\ UNCHANGED <<yolo_vars, server_vars>>
    /\ \E order \in Orderings(CameraSet) :
          /\ cameras' = order
          /\ indices' = permutation(random_seed, Len(order))
          /\ IF {"train", "val"} \subseteq DOMAIN split_ratio
             THEN /\ test_idx' = split_indices(Len(order), random_seed, split_ratio).test
                  /\ split_cameras' = camera_groups(order, random_seed, split_ratio)
                  /\ pc' = "subsample_frames"
                  /\ raised' = raised
             ELSE /\ pc' = "error"
                  /\ raised' = "split_camera_data"
                  /\ UNCHANGED <<test_idx, split_cameras>>
    /\ split' = "train"
    /\ UNCHANGED <<inputs, frame_data, subsampled, split_frames, lookup, written>>

\* ----------------------------------------------------- subsample_frames
\* the filter applied to video_id instead of camera_id
split_videos_of_by_video_id(cams) == {v \in Videos : v \in SeqToSet(cams)}

\* line 55: the videos of the cameras of a split
split_videos_of(cams) == {v \in Videos : video_data[v].camera_id \in SeqToSet(cams)}

\* line 56: frame_data.join(split_videos, on="video_id", how="inner"), as the
\* set of the track rows kept
joined_tracks(cams) ==
    {i \in 1..Len(frame_data) : frame_data[i].video_id \in split_videos_of(cams)}

\* line 97
non_resting_frames(rows) == {i \in rows : frame_data[i].label # "Resting"}

\* the range taken with its end included
int_ranges_closed(t) == t.frame_begin .. t.frame_end

\* line 102: pl.int_ranges(frame_begin, frame_end, 1)
int_ranges(t) == t.frame_begin .. (t.frame_end - 1)

\* line 106: the values of "range" in the rows a track explodes to; an empty
\* list explodes to one row holding null
explode(t) == IF int_ranges(t) = {} THEN {NullFrame} ELSE int_ranges(t)

RECURSIVE SumOver(_, _)
SumOver(S, f) ==
    IF S = {} THEN 0
    ELSE LET x == CHOOSE y \in S : TRUE IN f[x] + SumOver(S \ {x}, f)

\* lines 109-111: unique().sort() of the exploded ranges of a video
target_frames_of(df, v) ==
    SortedSeq(UNION {explode(frame_data[i]) : i \in {j \in df : frame_data[j].video_id = v}})

label_count_deduplicated(df, v, l) ==
    LET rows == {i \in df : frame_data[i].video_id = v /\ frame_data[i].label = l}
    IN  Cardinality(UNION {explode(frame_data[i]) : i \in rows})

\* lines 115-118: pl.len() of the exploded rows of (video_id, label), 0 when
\* the video has no row of the label
label_count(df, v, l) ==
    LET rows == {i \in df : frame_data[i].video_id = v /\ frame_data[i].label = l}
    IN  SumOver(rows, [i \in rows |-> Cardinality(explode(frame_data[i]))])

\* lines 96-135, for the non-empty frame of non-Resting tracks df
subsample_frames(df) ==
    LET label_names == {frame_data[i].label : i \in df}
    IN  {[video_id      |-> v,
          target_frames |-> target_frames_of(df, v),
          label_counts  |-> [l \in label_names |-> label_count(df, v, l)],
          framesCount   |-> video_data[v].framesCount]
         : v \in {frame_data[i].video_id : i \in df}}

\* pl.struct of no field (line 120) raises: a split without any non-Resting
\* track ends the run
SubsampleFrames ==
    /\ pc = "subsample_frames"
    /\ UNCHANGED <<yolo_vars, server_vars>>
    /\ LET df == non_resting_frames(joined_tracks(split_cameras[split]))
       IN  IF df = {}
           THEN /\ pc' = "error"
                /\ raised' = "subsample_frames"
                /\ UNCHANGED subsampled
           ELSE /\ pc' = "sample_resting_frames"
                /\ raised' = raised
                /\ subsampled' = [subsampled EXCEPT ![split] = subsample_frames(df)]
    /\ UNCHANGED <<inputs, frame_data, cameras, indices, test_idx, split_cameras, split,
                   split_frames, lookup, written>>

\* ------------------------------------------------ sample_resting_frames
\* line 165: pl.max_horizontal(label_names)
max_count(r) ==
    CHOOSE m \in {r.label_counts[l] : l \in DOMAIN r.label_counts} :
        \A l \in DOMAIN r.label_counts : r.label_counts[l] <= m

\* pl.sum_horizontal(label_names)
sum_horizontal(r) == SumOver(DOMAIN r.label_counts, r.label_counts)

\* the set difference left out: every frame is a candidate
candidate_frames_all(r) == SortedSeq(1..r.framesCount)

\* lines 167-173: all_frames minus target_frames
candidate_frames(r) == SortedSeq((1..r.framesCount) \ SeqToSet(r.target_frames))

\* line 177: framesCount - sum_horizontal(label_names)
remaining(r) == r.framesCount - sum_horizontal(r)

\* list.sample(n, seed) without replacement raises when n exceeds the length
\* of the list; a negative n (no unsigned value) yields null and no error
sample_raises(list, n) == n > Len(list)

\* when / then / otherwise evaluates both branches on every row, so the
\* sample of either branch can raise
SampleRaises(table) ==
    \E r \in table :
        \/ sample_raises(candidate_frames(r), remaining(r))
        \/ sample_raises(candidate_frames(r), max_count(r))

\* lines 174-201: the size of the sample of the branch taken
added_rests(r) == IF max_count(r) > remaining(r) THEN remaining(r) ELSE max_count(r)

\* a sample with replacement: every draw made on the whole list
list_sample_with_replacement(list, n, seed) ==
    IF list = <<>> THEN <<>> ELSE [i \in 1..n |-> list[(seed % Len(list)) + 1]]

\* list.sample: the seeded sample of n >= 0 elements
list_sample(list, n, seed) == Draw(list, n, seed)

\* all_frames counted from 0
resting_row_frames_from_zero(r, seed) ==
    LET n == added_rests(r)
        candidates == SortedSeq((0..r.framesCount) \ SeqToSet(r.target_frames))
    IN  [video_id      |-> r.video_id,
         target_frames |-> IF n < 0 THEN <<>>
                           ELSE r.target_frames \o list_sample(candidates, n, seed),
         target_null   |-> n < 0,
         label_counts  |-> r.label_counts,
         added_rests   |-> n]

\* lines 163-217 for one row: concat of target_frames and the sample; the
\* concat with a null sample is null
resting_row(r, seed) ==
    LET n == added_rests(r)
    IN  [video_id      |-> r.video_id,
         target_frames |-> IF n < 0 THEN <<>>
                           ELSE r.target_frames \o list_sample(candidate_frames(r), n, seed),
         target_null   |-> n < 0,
         label_counts  |-> r.label_counts,
         added_rests   |-> n]

sample_resting_frames(table, seed) == {resting_row(r, seed) : r \in table}

SampleRestingFrames ==
    /\ pc = "sample_resting_frames"
    /\ UNCHANGED <<yolo_vars, server_vars>>
    /\ IF SampleRaises(subsampled[split])
       THEN /\ pc' = "error"
            /\ raised' = "sample_resting_frames"
            /\ UNCHANGED split_frames
       ELSE /\ pc' = "write"
            /\ raised' = raised
            /\ split_frames' = sample_resting_frames(subsampled[split], random_seed)
    /\ UNCHANGED <<inputs, frame_data, cameras, indices, test_idx, split_cameras, split,
                   subsampled, lookup, written>>

\* ------------------------------------------- split_camera_data: write
\* line 65: framesCount / duration, a float division: a zero duration gives
\* inf (nan for 0 / 0) and no error; a finite value is kept as the fraction
fps(v) ==
    IF video_data[v].duration = 0
    THEN [kind |-> IF video_data[v].framesCount = 0 THEN "nan" ELSE "inf",
          num  |-> 0,
          den  |-> 1]
    ELSE [kind |-> "finite",
          num  |-> video_data[v].framesCount,
          den  |-> video_data[v].duration]

\* lines 64-70: the row of split_frames joined with video_path and fps
lookup_row(r) ==
    [video_id      |-> r.video_id,
     target_frames |-> r.target_frames,
     target_null   |-> r.target_null,
     label_counts  |-> r.label_counts,
     added_rests   |-> r.added_rests,
     video_path    |-> video_data[r.video_id].video_path,
     fps           |-> fps(r.video_id)]

\* lines 64-73: join with the videos of the split and write the table; the
\* loop goes on to val after train
WriteSplit ==
    /\ pc = "write"
    /\ UNCHANGED <<yolo_vars, server_vars>>
    /\ lookup' = [lookup EXCEPT ![split] =
                    {lookup_row(r) : r \in {q \in split_frames :
                        q.video_id \in split_videos_of(split_cameras[split])}}]
    /\ written' = written \cup {split}
    /\ IF split = "train"
       THEN split' = "val" /\ pc' = "subsample_frames"
       ELSE split' = split /\ pc' = "done"
    /\ UNCHANGED <<inputs, frame_data, cameras, indices, test_idx, split_cameras,
                   subsampled, split_frames, raised>>

\* ------------------------------------- annotations_to_yolo: process_item
\* A path is [prefixed, file]: whether it starts with a directory ending in
\* "2021_bunting_clips/", and what follows as a sequence of pieces, a piece
\* being "/", ",", "%2C" or a name.

\* lines 42-44 and 53-56: split("2021_bunting_clips/")[-1].replace("%2C", ",")
clean(path) ==
    [i \in 1..Len(path.file) |-> IF path.file[i] = "%2C" THEN "," ELSE path.file[i]]

\* line 48: video_path.replace("/", ".").replace(",", "%2C")
video_filename(video_path) ==
    [i \in 1..Len(video_path) |->
        IF video_path[i] = "/" THEN "."
        ELSE IF video_path[i] = "," THEN "%2C" ELSE video_path[i]]

\* lines 52-58: the rows of the guidance whose cleaned path is the item's
video_guidance == {r \in guidance.rows : clean(r.video_path) = clean(item.video)}

\* line 115: np.unique(target_frames * fps / ls_fps).astype(int).tolist();
\* the quotients are compared and sorted as fractions over ls_fps.num and
\* then truncated; x / inf is 0.0, and the cast of nan is no frame number
remap(list, cap_fps, ls_fps) ==
    IF ls_fps.kind = "finite"
    THEN LET scaled == SortedSeq({list[i] * cap_fps * ls_fps.den : i \in 1..Len(list)})
         IN  [i \in 1..Len(scaled) |-> scaled[i] \div ls_fps.num]
    ELSE IF list = <<>> THEN <<>>
    ELSE IF ls_fps.kind = "inf" THEN <<0>> ELSE <<NullFrame>>

\* lines 71-105: the number of YOLO lines collected for a frame
frame_annotations(n) == Cardinality({i \in 1..Len(item.frames) : item.frames[i] = n})

\* lines 41-115: the guidance is read and filtered; a video that is not in
\* it ends the call; select("split") raises when the table has no such
\* column, item() when the video has more than one row
ProcessItemStart ==
    /\ item_pc = "process_item"
    /\ UNCHANGED <<split_vars, server_vars>>
    /\ IF video_guidance = {}
       THEN /\ columns_read' = {"video_path"}
            /\ item_pc' = "done"
            /\ UNCHANGED <<remapped, frame_num, item_raised>>
       ELSE IF "split" \notin guidance.columns \/ Cardinality(video_guidance) > 1
       THEN /\ columns_read' = {"video_path", "split"}
            /\ item_raised' = IF "split" \notin guidance.columns
                              THEN "ColumnNotFoundError" ELSE "ValueError"
            /\ item_pc' = "error"
            /\ UNCHANGED <<remapped, frame_num>>
       ELSE LET row == CHOOSE r \in video_guidance : TRUE
            IN  /\ columns_read' = {"video_path", "split", "target_frames", "fps"}
                /\ remapped' = remap(row.target_frames, cap.fps, row.fps)
                /\ frame_num' = 1
                /\ item_pc' = "extract"
                /\ UNCHANGED item_raised
    /\ UNCHANGED <<guidance, item, cap, image_files, label_files>>

\* the file a frame of the item is written to: directory and name
frame_file(n) ==
    [split |-> (CHOOSE r \in video_guidance : TRUE).split,
     video |-> video_filename(clean(item.video)),
     frame |-> n]

\* lines 119-145: one turn of the loop: cap.read(), and for a frame number
\* of the list an image and a label file; the end of the video ends the call
ReadFrame ==
    /\ item_pc = "extract"
    /\ UNCHANGED <<split_vars, server_vars>>
    /\ IF cap.index = cap.frames
       THEN /\ item_pc' = "done"
            /\ UNCHANGED <<cap, frame_num, image_files, label_files>>
       ELSE /\ cap' = [cap EXCEPT !.index = cap.index + 1]
            /\ frame_num' = frame_num + 1
            /\ item_pc' = item_pc
            /\ IF frame_num \in SeqToSet(remapped)
               THEN /\ image_files' = Append(image_files, frame_file(frame_num))
                    /\ label_files' = Append(label_files,
                                             [file  |-> frame_file(frame_num),
                                              lines |-> frame_annotations(frame_num)])
               ELSE UNCHANGED <<image_files, label_files>>
    /\ UNCHANGED <<guidance, item, remapped, columns_read, item_raised>>

\* ------------------------------------------ get_label_studio_annotations
\* the name of the project to export
project_name == "birds"

is_port_available_always(p) == TRUE

\* lines 32-38: the bind succeeds on a port that is not in use
is_port_available(p) == p \notin busy

\* lines 56-64: one turn of the loop of find_open_port: the port is probed,
\* returned when available and left for the next one otherwise
ProbePort ==
    /\ ls_pc = "find_open_port"
    /\ probes' = Append(probes, port)
    /\ IF is_port_available(port)
       THEN /\ open_port' = port
            /\ ls_pc' = "get_label_studio_client"
            /\ port' = port
       ELSE /\ port' = port + 1
            /\ UNCHANGED <<open_port, ls_pc>>
    /\ UNCHANGED <<busy, projects, export_status, start_port,
                   popen_calls, server_running, attempt,
                   sleeps, client, project_id, exported, close_calls, ls_raised>>
    /\ UNCHANGED <<split_vars, yolo_vars>>

\* lines 112-127: subprocess.Popen of label-studio on the open port
LaunchServer ==
    /\ ls_pc = "get_label_studio_client"
    /\ popen_calls' = Append(popen_calls, open_port)
    /\ server_running' = TRUE
    /\ ls_pc' = "connect"
    /\ UNCHANGED <<busy, projects, export_status, start_port,
                   port, probes, open_port, attempt,
                   sleeps, client, project_id, exported, close_calls, ls_raised>>
    /\ UNCHANGED <<split_vars, yolo_vars>>

ConnectAttemptSleepsAlways ==
    /\ ls_pc = "connect"
    /\ attempt' = attempt + 1
    /\ sleeps' = sleeps + 1
    /\ \E whoami_ok \in BOOLEAN :
          IF whoami_ok
          THEN /\ client' = "connected"
               /\ ls_pc' = "get_project_id_from_name"
               /\ UNCHANGED ls_raised
          ELSE /\ client' = client
               /\ IF attempt + 1 = MaxAttempts
                  THEN ls_pc' = "error" /\ ls_raised' = "RuntimeError"
                  ELSE ls_pc' = ls_pc /\ ls_raised' = ls_raised
    /\ UNCHANGED <<busy, projects, export_status, start_port,
                   port, probes, open_port, popen_calls,
                   server_running, project_id, exported, close_calls>>
    /\ UNCHANGED <<split_vars, yolo_vars>>

\* lines 129-142: one connection attempt: whoami succeeds or not; a failed
\* attempt sleeps, and the loop ending without a success raises RuntimeError
ConnectAttempt ==
    /\ ls_pc = "connect"
    /\ attempt' = attempt + 1
    /\ \E whoami_ok \in BOOLEAN :
          IF whoami_ok
          THEN /\ client' = "connected"
               /\ ls_pc' = "get_project_id_from_name"
               /\ UNCHANGED <<sleeps, ls_raised>>
          ELSE /\ sleeps' = sleeps + 1
               /\ client' = client
               /\ IF attempt + 1 = MaxAttempts
                  THEN ls_pc' = "error" /\ ls_raised' = "RuntimeError"
                  ELSE ls_pc' = ls_pc /\ ls_raised' = ls_raised
    /\ UNCHANGED <<busy, projects, export_status, start_port,
                   port, probes, open_port, popen_calls,
                   server_running, project_id, exported, close_calls>>
    /\ UNCHANGED <<split_vars, yolo_vars>>

\* lines 219-230: the id of the project of the name, ValueError without one
GetProjectId ==
    /\ ls_pc = "get_project_id_from_name"
    /\ IF project_name \in projects
       THEN /\ project_id' = 1
            /\ ls_pc' = "export_label_studio_annotations"
            /\ UNCHANGED ls_raised
       ELSE /\ ls_pc' = "error"
            /\ ls_raised' = "ValueError"
            /\ UNCHANGED project_id
    /\ UNCHANGED <<busy, projects, export_status, start_port,
                   port, probes, open_port, popen_calls,
                   server_running, attempt, sleeps, client, exported, close_calls>>
    /\ UNCHANGED <<split_vars, yolo_vars>>

\* lines 165-201: the snapshot is created and, when its status is completed,
\* downloaded to the file; BadRequestError otherwise
ExportAnnotations ==
    /\ ls_pc = "export_label_studio_annotations"
    /\ IF export_status = "completed"
       THEN /\ exported' = TRUE
            /\ ls_pc' = "close_server"
            /\ UNCHANGED ls_raised
       ELSE /\ ls_pc' = "error"
            /\ ls_raised' = "BadRequestError"
            /\ UNCHANGED exported
    /\ UNCHANGED <<busy, projects, export_status, start_port,
                   port, probes, open_port, popen_calls,
                   server_running, attempt, sleeps, client, project_id, close_calls>>
    /\ UNCHANGED <<split_vars, yolo_vars>>

\* lines 76-87 and 277-279: the processes listening on the port are killed
CloseServer ==
    /\ ls_pc = "close_server"
    /\ close_calls' = Append(close_calls, open_port)
    /\ server_running' = FALSE
    /\ ls_pc' = "done"
    /\ UNCHANGED <<busy, projects, export_status, start_port,
                   port, probes, open_port, popen_calls,
                   attempt, sleeps, client, project_id, exported, ls_raised>>
    /\ UNCHANGED <<split_vars, yolo_vars>>

\* ------------------------------------------------------------- inputs
\* no export is running
NoServer ==
    /\ busy = {}
    /\ projects = {}
    /\ export_status = "none"
    /\ start_port = 0
    /\ port = 0
    /\ probes = <<>>
    /\ open_port = 0
    /\ popen_calls = <<>>
    /\ server_running = FALSE
    /\ attempt = 0
    /\ sleeps = 0
    /\ client = "none"
    /\ project_id = 0
    /\ exported = FALSE
    /\ close_calls = <<>>
    /\ ls_raised = "none"
    /\ ls_pc = "idle"

\* no item is being processed
NoItem ==
    /\ guidance = [columns |-> {}, rows |-> {}]
    /\ item = [video |-> <<>>, frames |-> <<>>]
    /\ cap = [fps |-> 0, frames |-> 0, index |-> 0]
    /\ remapped = <<>>
    /\ frame_num = 0
    /\ image_files = <<>>
    /\ label_files = <<>>
    /\ columns_read = {}
    /\ item_raised = "none"
    /\ item_pc = "idle"

Seeds == 0..MaxSeed
Ratios == [train : 0..RatioDen, val : 0..RatioDen]

\* camera names up to renaming: video 1 is on camera 1, every later video on
\* a camera seen before or on the next new one
RECURSIVE MaxCamera(_, _)
MaxCamera(f, v) == IF v = 0 THEN 0
                   ELSE IF f[v] > MaxCamera(f, v - 1) THEN f[v] ELSE MaxCamera(f, v - 1)

CameraMaps == {f \in [Videos -> Videos] : \A v \in Videos : f[v] <= MaxCamera(f, v - 1) + 1}

\* a row of the video table; the path is <camera directory>/<file>
VideoRow(camera, frames, duration, file) ==
    [camera_id   |-> camera,
     framesCount |-> frames,
     duration    |-> duration,
     video_path  |-> <<camera, file>>]

Start(vd, an, ratio, seed) ==
    /\ video_data = vd
    /\ annotations = an
    /\ split_ratio = ratio
    /\ random_seed = seed
    /\ frame_data = <<>>
    /\ cameras = <<>>
    /\ indices = <<>>
    /\ test_idx = <<>>
    /\ split_cameras = [train |-> <<>>, val |-> <<>>]
    /\ split = "train"
    /\ subsampled = [s \in {"train", "val"} |-> {}]
    /\ split_frames = {}
    /\ lookup = [s \in {"train", "val"} |-> {}]
    /\ written = {}
    /\ raised = "none"
    /\ pc = "get_label_tables"
    /\ NoItem
    /\ NoServer

\* one track per video: a short action or a Resting track, and for video 1
\* also an action up to the last frame
SimpleTrack(v, kind) ==
    [video_id |-> v,
     label    |-> IF kind = "rest" THEN "Resting" ELSE "A",
     first    |-> 1,
     last     |-> IF kind = "long" THEN MaxFrames ELSE 2]

TrackKinds == {k \in [Videos -> {"short", "long", "rest"}] :
                  \A v \in Videos : k[v] = "long" => v = 1}

\* every camera map, ratio and seed, with one track per video
Init ==
    \E f \in CameraMaps, ratio \in Ratios, seed \in Seeds, k \in TrackKinds :
        Start([v \in Videos |-> VideoRow(f[v], MaxFrames, 1, v)],
              [v \in Videos |-> SimpleTrack(v, k[v])], ratio, seed)

Next ==
    \/ GetLabelTables
    \/ Partition
    \/ SubsampleFrames
    \/ SampleRestingFrames
    \/ WriteSplit

Spec == Init /\ [][Next]_vars

\* The track-rich inputs: two cameras (video 1, of MaxFrames frames, on the
\* first, the shorter other videos on the second), ratios without a test
\* share, and up to MaxTracks tracks whose
\* first / last frames range over 0..MaxFrames+1, on videos 1 and 2 (the other
\* videos have no track).  Rows are in key order (the row order does not enter
\* the computation).
LabelIndex(l) == IF l = "A" THEN 0 ELSE IF l = "B" THEN 1 ELSE 2

TrackKey(t) ==
    ((t.video_id * Cardinality(Labels) + LabelIndex(t.label)) * (MaxFrames + 2) + t.first)
        * (MaxFrames + 2) + t.last

TrackRecords ==
    {t \in [video_id : {v \in Videos : v <= 2}, label : Labels,
             first : 0..MaxFrames, last : 0..(MaxFrames + 1)] :
        t.first <= t.last}

IsTrackTable(an) ==
    \A i \in 1..(Len(an) - 1) : TrackKey(an[i]) <= TrackKey(an[i + 1])

InitFrames ==
    \E seed \in Seeds, n \in 0..MaxTracks :
    \E ratio \in {r \in Ratios : 2 * r.train >= RatioDen /\ r.train + r.val = RatioDen} :
    \E an \in [1..n -> TrackRecords] :
        /\ IsTrackTable(an)
        /\ Start([v \in Videos |-> VideoRow(Min(v, 2),
                                            IF v = 1 THEN MaxFrames ELSE MaxFrames - 1,
                                            1, v)],
                 an, ratio, seed)

SpecFrames == InitFrames /\ [][Next]_vars

\* The ratio configurations: any subset of the keys train, val and test, each
\* with a value from -1/RatioDen to (RatioDen+1)/RatioDen; every video on its
\* own camera with one short track, video 1 with a duration of 0 or 1.
RatioKeys == {"train", "val", "test"}

RatioConfigs ==
    UNION {[keys -> (0 - 1)..(RatioDen + 1)] : keys \in SUBSET RatioKeys}

InitConfig ==
    \E ratio \in RatioConfigs, seed \in Seeds, d \in 0..1 :
        Start([v \in Videos |-> VideoRow(v, MaxFrames, IF v = 1 THEN d ELSE 1, v)],
              [v \in Videos |-> SimpleTrack(v, "short")], ratio, seed)

SpecConfig == InitConfig /\ [][Next]_vars

\* split_camera_data is not running
NoSplitRun ==
    /\ video_data = <<>>
    /\ annotations = <<>>
    /\ split_ratio = <<>>
    /\ random_seed = 0
    /\ frame_data = <<>>
    /\ cameras = <<>>
    /\ indices = <<>>
    /\ test_idx = <<>>
    /\ split_cameras = [train |-> <<>>, val |-> <<>>]
    /\ split = "train"
    /\ subsampled = [s \in {"train", "val"} |-> {}]
    /\ split_frames = {}
    /\ lookup = [s \in {"train", "val"} |-> {}]
    /\ written = {}
    /\ raised = "none"
    /\ pc = "idle"

\* The items and guidance tables of process_item: a guidance of one row,
\* with the four columns of the lookup table and possibly split and
\* added_rests, for a video whose name holds a comma, written either way;
\* an item for this video or another one; a capture of 0..MaxFrames frames.
FourColumns == {"video_id", "target_frames", "video_path", "fps"}

GuidanceColumnSets == {FourColumns \cup extra : extra \in SUBSET {"split", "added_rests"}}

TargetLists ==
    {<<>>} \cup {<<a>> : a \in 0..(MaxFrames + 1)}
           \cup {t \in (0..(MaxFrames + 1)) \X (0..(MaxFrames + 1)) : t[1] # t[2]}

GuidanceFps ==
    {[kind |-> "finite", num |-> n, den |-> 1] : n \in 1..MaxFps}
        \cup {[kind |-> "inf", num |-> 0, den |-> 1]}

InitYolo ==
    \E cols \in GuidanceColumnSets, t \in TargetLists, f \in GuidanceFps,
       comma \in {",", "%2C"},
       name \in {<<"c", "/", "a", ",">>, <<"c", "/", "a", "%2C">>, <<"b">>},
       cf \in 1..MaxFps, n \in 0..MaxFrames :
        /\ NoSplitRun
        /\ NoServer
        /\ guidance = [columns |-> cols,
                       rows    |-> {[video_id      |-> 1,
                                     video_path    |-> [prefixed |-> TRUE,
                                                        file     |-> <<"c", "/", "a", comma>>],
                                     target_frames |-> t,
                                     fps           |-> f,
                                     split         |-> "train"]}]
        /\ item = [video |-> [prefixed |-> TRUE, file |-> name], frames |-> <<1, 2>>]
        /\ cap = [fps |-> cf, frames |-> n, index |-> 0]
        /\ remapped = <<>>
        /\ frame_num = 0
        /\ image_files = <<>>
        /\ label_files = <<>>
        /\ columns_read = {}
        /\ item_raised = "none"
        /\ item_pc = "process_item"

NextYolo ==
    \/ ProcessItemStart
    \/ ReadFrame

SpecYolo == InitYolo /\ [][NextYolo]_vars

\* The exports: a start port of 1..MaxPort, any set of these ports in use
\* (the ports above MaxPort are free), a server with or without the project
\* and a snapshot that is completed or not.
InitServer ==
    \E start \in 1..MaxPort, used \in SUBSET (1..MaxPort),
       titles \in {{}, {"other"}, {"other", project_name}},
       status \in {"completed", "in_progress"} :
        /\ NoSplitRun
        /\ NoItem
        /\ busy = used
        /\ projects = titles
        /\ export_status = status
        /\ start_port = start
        /\ port = start
        /\ probes = <<>>
        /\ open_port = 0
        /\ popen_calls = <<>>
        /\ server_running = FALSE
        /\ attempt = 0
        /\ sleeps = 0
        /\ client = "none"
        /\ project_id = 0
        /\ exported = FALSE
        /\ close_calls = <<>>
        /\ ls_raised = "none"
        /\ ls_pc = "find_open_port"

NextServer ==
    \/ ProbePort
    \/ LaunchServer
    \/ ConnectAttempt
    \/ GetProjectId
    \/ ExportAnnotations
    \/ CloseServer

SpecServer == InitServer /\ [][NextServer]_vars

\* the export as a running program: a step that can be taken is taken
SpecServerFair == InitServer /\ [][NextServer]_vars /\ WF_vars(NextServer)

\* ================================================================ claims
Partitioned == pc \notin {"get_label_tables", "partition"}

Group(name) == SeqToSet(split_cameras[name])

\* the cameras at the rows of test_idx
TestGroup == SeqToSet(take(cameras, test_idx))

\* C1: the train, val and test camera groups are pairwise disjoint, hold no
\* camera twice, and their union is the set of all cameras.
C1_CameraGroupsPartition ==
    Partitioned =>
        /\ Group("train") \cap Group("val") = {}
        /\ Group("train") \cap TestGroup = {}
        /\ Group("val") \cap TestGroup = {}
        /\ Group("train") \cup Group("val") \cup TestGroup = CameraSet
        /\ Len(split_cameras.train) + Len(split_cameras.val) + Len(test_idx)
              = Cardinality(CameraSet)

C1_Witness ==
    /\ Partitioned
    /\ Cardinality(CameraSet) = NumVideos
    /\ Len(split_cameras.train) > 1
    /\ split_cameras.val # <<>>

\* C2: no video is in both written tables, and two videos of one camera are
\* never in different written tables.
C2_CameraInOneTable ==
    \A r \in lookup["train"], q \in lookup["val"] :
        /\ r.video_id # q.video_id
        /\ video_data[r.video_id].camera_id # video_data[q.video_id].camera_id

C2_Witness ==
    /\ pc = "done"
    /\ lookup["val"] # {}
    /\ \E r, q \in lookup["train"] :
          /\ r.video_id # q.video_id
          /\ video_data[r.video_id].camera_id = video_data[q.video_id].camera_id

\* C3: the camera-to-split assignment is the same for every order in which
\* unique() can enumerate the distinct cameras (two runs on the same inputs
\* and seed agree).
C3_AssignmentIndependentOfUniqueOrder ==
    Partitioned =>
        \A order \in Orderings(CameraSet) :
            LET g == camera_groups(order, random_seed, split_ratio)
            IN  /\ SeqToSet(g.train) = Group("train")
                /\ SeqToSet(g.val) = Group("val")

\* the row subsample_frames returned for the video of a written row
PreRow(s, r) == CHOOSE p \in subsampled[s] : p.video_id = r.video_id

\* the rows written that hold a list
WrittenRows(s) == {r \in lookup[s] : ~r.target_null}

\* the frames sample_resting_frames appended to the list of a written row
Backfill(s, r) ==
    SubSeq(r.target_frames, Len(PreRow(s, r).target_frames) + 1, Len(r.target_frames))

\* C4: no written target_frames list holds an entry twice.
C4_NoDuplicateTargetFrames ==
    \A s \in written : \A r \in WrittenRows(s) :
        \A i, j \in 1..Len(r.target_frames) :
            r.target_frames[i] = r.target_frames[j] => i = j

C4_Witness ==
    \E s \in written : \E r \in WrittenRows(s) :
        /\ Len(PreRow(s, r).target_frames) > 1
        /\ Len(Backfill(s, r)) > 1

\* C5: every frame appended by sample_resting_frames is a frame of
\* 1..framesCount that the list held before did not contain.
C5_BackfillFromComplement ==
    \A s \in written : \A r \in WrittenRows(s) :
        /\ SubSeq(r.target_frames, 1, Len(PreRow(s, r).target_frames))
              = PreRow(s, r).target_frames
        /\ \A f \in SeqToSet(Backfill(s, r)) :
              /\ f \in 1..video_data[r.video_id].framesCount
              /\ f \notin SeqToSet(PreRow(s, r).target_frames)

C5_Witness ==
    \E s \in written : \E r \in WrittenRows(s) :
        /\ Backfill(s, r) # <<>>
        /\ \E f \in SeqToSet(PreRow(s, r).target_frames) :
              f \in 1..video_data[r.video_id].framesCount

\* the non-Resting rows of the frame table of a video
ActionTracks(v) ==
    {i \in 1..Len(frame_data) :
        frame_data[i].video_id = v /\ frame_data[i].label # "Resting"}

FrameValues == (0 - 1)..(MaxFrames + 2)

InRange(f, v) == 1 <= f /\ f <= video_data[v].framesCount

\* C6 as claimed: every frame index of a written target_frames list is in
\* 1..framesCount, whatever the integers frame_begin / frame_end are.
C6_TargetFramesInRange ==
    \A s \in written : \A r \in WrittenRows(s) :
        \A f \in SeqToSet(r.target_frames) :
            f # NullFrame => InRange(f, r.video_id)

\* C6 as amended: the frame indices of a written list are in 1..framesCount
\* when every non-Resting track of the video has 1 <= frame_begin and
\* frame_end <= framesCount + 1.
C6_InRangeTracksGiveInRangeFrames ==
    \A s \in written : \A r \in WrittenRows(s) :
        (\A i \in ActionTracks(r.video_id) :
            /\ 1 <= frame_data[i].frame_begin
            /\ frame_data[i].frame_end <= video_data[r.video_id].framesCount + 1)
        => \A f \in SeqToSet(r.target_frames) :
              f # NullFrame => InRange(f, r.video_id)

C6_Witness ==
    \E s \in written : \E r \in WrittenRows(s) :
        /\ \A i \in ActionTracks(r.video_id) :
              /\ 1 <= frame_data[i].frame_begin
              /\ frame_data[i].frame_end <= video_data[r.video_id].framesCount + 1
        /\ \E i \in ActionTracks(r.video_id) :
              frame_data[i].frame_end = video_data[r.video_id].framesCount + 1
        /\ video_data[r.video_id].framesCount \in SeqToSet(PreRow(s, r).target_frames)
        /\ Backfill(s, r) # <<>>

\* the quota of the claim: the two branches, clamped at 0
Quota(p) ==
    LET used == sum_horizontal(p)
        q    == IF max_count(p) > p.framesCount - used
                THEN p.framesCount - used ELSE max_count(p)
    IN  IF q < 0 THEN 0 ELSE q

\* every annotated frame is a frame of its video
AnnotationsInRange ==
    \A i \in 1..Len(annotations) :
        /\ 1 <= annotations[i].first
        /\ annotations[i].last <= video_data[annotations[i].video_id].framesCount

\* C7: sample_resting_frames returns, for every video, the list extended by
\* min(quota, |complement|) frames (stated for annotations whose frames all
\* lie in 1..framesCount).
C7_BackfillSize ==
    AnnotationsInRange =>
        /\ raised # "sample_resting_frames"
        /\ \A s \in written : \A r \in lookup[s] :
              /\ ~r.target_null
              /\ Len(Backfill(s, r))
                    = Min(Quota(PreRow(s, r)),
                          Cardinality((1..video_data[r.video_id].framesCount)
                                        \ SeqToSet(PreRow(s, r).target_frames)))

\* C8: the target frames of a video hold every frame of
\* frame_begin..frame_end-1 of each of its non-Resting tracks with
\* frame_begin # frame_end, and no frame outside these ranges.
C8_RangeClosedOpen ==
    \A s \in {"train", "val"} : \A p \in subsampled[s] :
        /\ \A i \in ActionTracks(p.video_id) : \A f \in FrameValues :
              (/\ frame_data[i].frame_begin # frame_data[i].frame_end
               /\ frame_data[i].frame_begin <= f
               /\ f < frame_data[i].frame_end)
              => f \in SeqToSet(p.target_frames)
        /\ \A f \in SeqToSet(p.target_frames) :
              f # NullFrame =>
                 \E i \in ActionTracks(p.video_id) :
                    /\ frame_data[i].frame_begin # frame_data[i].frame_end
                    /\ frame_data[i].frame_begin <= f
                    /\ f < frame_data[i].frame_end

C8_Witness ==
    \E s \in {"train", "val"} : \E p \in subsampled[s] :
        /\ Cardinality(ActionTracks(p.video_id)) > 1
        /\ \E i \in ActionTracks(p.video_id) :
              /\ frame_data[i].frame_begin + 1 < frame_data[i].frame_end
              /\ frame_data[i].frame_end - 1 \in SeqToSet(p.target_frames)
              /\ frame_data[i].frame_end \notin SeqToSet(p.target_frames)

\* the annotated single-frame tracks (first = last) of a video, Resting aside
PointTracks(v) ==
    {i \in 1..Len(annotations) :
        /\ annotations[i].video_id = v
        /\ annotations[i].label # "Resting"
        /\ annotations[i].first = annotations[i].last}

C10_IntervalsRepresented ==
    \A s \in written : \A i \in 1..Len(frame_data) :
        (/\ frame_data[i].label # "Resting"
         /\ video_data[frame_data[i].video_id].camera_id \in Group(s))
        => \E r \in WrittenRows(s) :
              /\ r.video_id = frame_data[i].video_id
              /\ \A f \in FrameValues :
                    (frame_data[i].frame_begin <= f /\ f < frame_data[i].frame_end)
                    => f \in SeqToSet(r.target_frames)

Columns(r) == (DOMAIN r \ {"target_null", "label_counts"}) \cup DOMAIN r.label_counts

\* C12: a written table has exactly the columns video_id, target_frames,
\* video_path and fps.
C12_ExactlyFourColumns ==
    \A s \in written : \A r \in lookup[s] :
        Columns(r) = {"video_id", "target_frames", "video_path", "fps"}

\* the videos of the cameras of a split that have no non-Resting track
VideosWithoutAction(s) ==
    {v \in split_videos_of(split_cameras[s]) : ActionTracks(v) = {}}

\* C13: a video of a train / val split without a non-Resting track row is in
\* the split's written table with an empty target_frames list, and the run
\* does not fail at a split because of such videos.
C13_VideoWithoutTrackCarried ==
    /\ \A s \in written : \A v \in VideosWithoutAction(s) :
          \E r \in lookup[s] :
              r.video_id = v /\ ~r.target_null /\ r.target_frames = <<>>
    /\ raised = "subsample_frames" => VideosWithoutAction(split) = {}

\* C14: a run does not raise at a split that has no camera or no video, and
\* the table written for such a split is empty.
C14_EmptySplitWritesEmptyTable ==
    /\ raised \in {"subsample_frames", "sample_resting_frames"}
          => split_videos_of(split_cameras[split]) # {}
    /\ \A s \in written :
          split_videos_of(split_cameras[s]) = {} => lookup[s] = {}

\* a key is missing or a value is outside [0, 1]
Malformed ==
    \/ ~(RatioKeys \subseteq DOMAIN split_ratio)
    \/ \E k \in DOMAIN split_ratio : split_ratio[k] < 0 \/ split_ratio[k] > RatioDen

\* C15: with a malformed ratio configuration the run ends with an error of
\* split_camera_data before the permutation is drawn, before any frame is
\* sampled and before any table is written.
C15_MalformedRatioRejected ==
    Malformed =>
        /\ indices = <<>>
        /\ split_frames = {}
        /\ written = {}
        /\ Partitioned => raised = "split_camera_data"

\* a degenerate video record: a zero duration, or label counts whose sum is
\* larger than framesCount
Degenerate(p) ==
    \/ video_data[p.video_id].duration = 0
    \/ sum_horizontal(p) > p.framesCount

\* one of the two samples of a row raises
RowRaises(p) ==
    \/ sample_raises(candidate_frames(p), remaining(p))
    \/ sample_raises(candidate_frames(p), max_count(p))

\* C16: when one video of a split is degenerate and no other video of the
\* split makes the sampling fail, the run does not end at that split and the
\* split's table holds every other video (stated for annotations whose
\* frames all lie in 1..framesCount).
C16_DegenerateVideoDoesNotAbort ==
    AnnotationsInRange =>
        \A s \in {"train", "val"} :
            LET deg == {p \in subsampled[s] : Degenerate(p)}
            IN  (Cardinality(deg) = 1 /\ \A p \in subsampled[s] \ deg : ~RowRaises(p))
                => /\ ~(pc = "error" /\ split = s)
                   /\ s \in written =>
                         \A p \in subsampled[s] \ deg :
                             \E r \in lookup[s] : r.video_id = p.video_id

\* C17: for every video, each sample size sample_resting_frames asks
\* list.sample for (framesCount minus the sum of the label counts, and
\* max_count) is at most the number of candidate frames (stated for
\* annotations whose frames all lie in 1..framesCount).
C17_SampleSizeWithinComplement ==
    AnnotationsInRange =>
        \A s \in {"train", "val"} : \A p \in subsampled[s] :
            /\ remaining(p) <= Len(candidate_frames(p))
            /\ max_count(p) <= Len(candidate_frames(p))

\* the frame numbers of the decoded frames that are in the remapped list of
\* the item's row of the guidance
WantedFrames ==
    LET row == CHOOSE r \in video_guidance : TRUE
    IN  {n \in 1..cap.frames : n \in SeqToSet(remap(row.target_frames, cap.fps, row.fps))}

\* C18: for a video of the guidance, process_item ends having written one
\* image and one label file for each decoded frame number of the remapped
\* target-frame list, and never writes a file of another frame; for a video
\* that is not in the guidance it writes nothing.
C18_FilesForTargetFrames ==
    /\ video_guidance = {} => image_files = <<>> /\ label_files = <<>>
    /\ video_guidance # {} =>
          /\ \A i \in 1..Len(image_files) : image_files[i].frame \in WantedFrames
          /\ \A i \in 1..Len(label_files) : label_files[i].file.frame \in WantedFrames
          /\ item_pc \in {"done", "error"} =>
                /\ {image_files[i].frame : i \in 1..Len(image_files)} = WantedFrames
                /\ {label_files[i].file.frame : i \in 1..Len(label_files)} = WantedFrames
                /\ Len(image_files) = Cardinality(WantedFrames)
                /\ Len(label_files) = Cardinality(WantedFrames)

\* C19: process_item completes on a guidance table with exactly the columns
\* video_id, target_frames, video_path and fps, and reads no other column.
C19_FourColumnsSuffice ==
    guidance.columns = FourColumns =>
        /\ item_pc # "error"
        /\ columns_read \subseteq FourColumns

\* C20: a run that launched a server and has ended, by returning or by an
\* exception, has called close_server exactly once, on the opened port, and
\* no call of close_server comes before the export.
C20_ServerClosedWhenRunEnds ==
    /\ (popen_calls # <<>> /\ ls_pc \in {"done", "error"}) => close_calls = <<open_port>>
    /\ close_calls # <<>> => exported

\* the probes of find_open_port so far: the ports from the start port on, in
\* increasing order and each once, every probe before the last one of a port
\* that is in use, and the port returned the last one probed, which is free
ProbesInOrder ==
    /\ \A i \in 1..Len(probes) : probes[i] = start_port + i - 1
    /\ \A i \in 1..(Len(probes) - 1) : probes[i] \in busy
    /\ ls_pc = "find_open_port" => \A i \in 1..Len(probes) : probes[i] \in busy
    /\ ls_pc # "find_open_port" =>
          /\ probes # <<>>
          /\ open_port = probes[Len(probes)]
          /\ open_port \notin busy

\* C21: find_open_port probes the ports from the start port on in increasing
\* order, each once, stops at the first one that is available and returns
\* it, never a port that is in use; and since a port at or above the start
\* is free, it returns.
C21_FindOpenPort == [](ProbesInOrder) /\ <>(ls_pc # "find_open_port")

\* a port was returned after two ports in use were passed over
C21_Witness ==
    /\ ls_pc = "get_label_studio_client"
    /\ Len(probes) = 3
    /\ open_port = start_port + 2

\* C22: get_label_studio_client launches the server once, on the open port,
\* and makes at most 30 connection attempts; the client is that of the first
\* attempt whose whoami succeeds, with one sleep for each failed attempt
\* before it and none after it; RuntimeError is raised exactly when all 30
\* attempts have failed.
C22_LaunchOnceConnectWithin30 ==
    /\ Len(popen_calls) <= 1
    /\ ls_pc \notin {"find_open_port", "get_label_studio_client"} =>
          popen_calls = <<open_port>>
    /\ attempt <= MaxAttempts
    /\ client = "connected" => sleeps = attempt - 1
    /\ client = "none" => sleeps = attempt
    /\ ls_raised = "RuntimeError" <=> (client = "none" /\ attempt = MaxAttempts)

\* the last of the 30 attempts succeeded, after 29 sleeps
C22_Witness ==
    /\ client = "connected"
    /\ attempt = MaxAttempts
    /\ sleeps = MaxAttempts - 1
    /\ ls_raised = "none"

\* the frames of the expanded ranges of the non-Resting tracks of a video
RangeUnion(v) == UNION {int_ranges(frame_data[i]) : i \in ActionTracks(v)}

StrictlyIncreasing(l) == \A i \in 1..(Len(l) - 1) : l[i] < l[i + 1]

\* C23: the target_frames of a row of subsample_frames is the strictly
\* increasing list of the union of the expanded ranges of the non-Resting
\* tracks of its video; Resting is no field of the label counts, and every
\* row is of a video with a non-Resting track (stated for annotations whose
\* frames all lie in 1..framesCount).
C23_TargetFramesSortedUnion ==
    AnnotationsInRange =>
        \A s \in {"train", "val"} : \A p \in subsampled[s] :
            /\ StrictlyIncreasing(p.target_frames)
            /\ SeqToSet(p.target_frames) = RangeUnion(p.video_id)
            /\ "Resting" \notin DOMAIN p.label_counts
            /\ ActionTracks(p.video_id) # {}

\* the non-Resting tracks of a video that carry a label
LabelTracks(v, l) == {i \in ActionTracks(v) : frame_data[i].label = l}

\* the frames of the expanded ranges of the tracks, each track counted apart
RangeSizes(tracks) ==
    SumOver(tracks, [i \in tracks |-> Cardinality(int_ranges(frame_data[i]))])

\* C24: the count of a label in a row of subsample_frames is the sum, over
\* the tracks of the video that carry the label, of the number of frames of
\* the expanded range of the track, a frame under k tracks counted k times
\* (stated for annotations whose frames all lie in 1..framesCount).
C24_LabelCountsSumOfRangeSizes ==
    AnnotationsInRange =>
        \A s \in {"train", "val"} : \A p \in subsampled[s] :
            \A l \in DOMAIN p.label_counts :
                p.label_counts[l] = RangeSizes(LabelTracks(p.video_id, l))

\* two non-Resting tracks of the video explode to a common entry
TracksOverlap(v) ==
    \E i, j \in ActionTracks(v) :
        i # j /\ explode(frame_data[i]) \cap explode(frame_data[j]) # {}

\* C25 as claimed: the sum of the label counts of a row of subsample_frames
\* is at most the number of entries of its duplicate-free target_frames list.
C25_SumWithinDistinctFrames ==
    \A s \in {"train", "val"} : \A p \in subsampled[s] :
        sum_horizontal(p) <= Len(p.target_frames)

\* C25 as amended: the sum of the label counts is at least the number of
\* entries of the target_frames list, and greater exactly when two
\* non-Resting tracks of the video overlap.
C25_SumAtLeastDistinctFrames ==
    \A s \in {"train", "val"} : \A p \in subsampled[s] :
        /\ sum_horizontal(p) >= Len(p.target_frames)
        /\ sum_horizontal(p) > Len(p.target_frames) <=> TracksOverlap(p.video_id)

\* two overlapping tracks of one label, every annotated frame in the video:
\* the sum of the counts is above the number of distinct frames
C25_Witness ==
    /\ AnnotationsInRange
    /\ \E s \in {"train", "val"} : \E p \in subsampled[s] :
          /\ TracksOverlap(p.video_id)
          /\ Cardinality(DOMAIN p.label_counts) = 1
          /\ NullFrame \notin SeqToSet(p.target_frames)
          /\ sum_horizontal(p) > Len(p.target_frames)

\* the videos of a split whose label counts leave no frame over
Saturated(s) == {p \in subsampled[s] : remaining(p) <= 0}

\* C26: when framesCount minus the sum of the label counts of a video is 0
\* or less, sample_resting_frames does not raise and the video's
\* target_frames list is written as subsample_frames made it (stated for
\* annotations whose frames all lie in 1..framesCount).
C26_SaturatedVideoUnmodified ==
    AnnotationsInRange =>
        \A s \in {"train", "val"} :
            Saturated(s) # {} =>
                /\ ~(split = s /\ raised = "sample_resting_frames")
                /\ s \in written =>
                      \A p \in Saturated(s) : \E r \in lookup[s] :
                          /\ r.video_id = p.video_id
                          /\ ~r.target_null
                          /\ r.added_rests = 0
                          /\ r.target_frames = p.target_frames

Dist(a, b) == IF a < b THEN b - a ELSE a - b

\* the integer nearest to num / den, the even one of two equally near
Nearest(num, den) ==
    CHOOSE k \in 0..(num + 1) :
        /\ 2 * Dist(k * den, num) <= den
        /\ 2 * Dist(k * den, num) = den => k % 2 = 0

\* the ratios are in [0,1] and train + val is at most 1
RatioWithinOne == split_ratio.train + split_ratio.val <= RatioDen

\* a group's size is within 1/2 of its share of the n cameras
WithinTolerance(size, share, n) == 2 * Dist(size * RatioDen, share * n) <= RatioDen

\* C27 as claimed: for ratios with train + val <= 1 the train group has
\* round(train * N) cameras and the val group round(val * N) cameras, each
\* size within 1/2 of ratio * N.
C27_GroupSizesAsRounded ==
    (Partitioned /\ RatioWithinOne) =>
        LET n == Len(cameras)
        IN  /\ Len(split_cameras.train) = Nearest(split_ratio.train * n, RatioDen)
            /\ Len(split_cameras.val) = Nearest(split_ratio.val * n, RatioDen)
            /\ WithinTolerance(Len(split_cameras.train), split_ratio.train, n)
            /\ WithinTolerance(Len(split_cameras.val), split_ratio.val, n)

\* C27 as amended: the train group is the first round(train * N) cameras of
\* the permutation; the val group is the slice that follows it, of
\* round(val * N) cameras or of all the cameras left when these are fewer;
\* each size is within 1/2 of ratio * N.
C27_GroupSizesWithinCameras ==
    (Partitioned /\ RatioWithinOne) =>
        LET n       == Len(cameras)
            n_train == Nearest(split_ratio.train * n, RatioDen)
            n_val   == Min(Nearest(split_ratio.val * n, RatioDen), n - n_train)
        IN  /\ split_cameras.train = take(cameras, SubSeq(indices, 1, n_train))
            /\ split_cameras.val = take(cameras, SubSeq(indices, n_train + 1, n_train + n_val))
            /\ WithinTolerance(Len(split_cameras.train), split_ratio.train, n)
            /\ WithinTolerance(Len(split_cameras.val), split_ratio.val, n)

\* three cameras split .5 / .5: both counts round to 2, train has two
\* cameras and val the one that is left
C27_Witness ==
    /\ Partitioned
    /\ RatioWithinOne
    /\ Len(cameras) = 3
    /\ 2 * split_ratio.train = RatioDen
    /\ 2 * split_ratio.val = RatioDen
    /\ Len(split_cameras.train) = 2
    /\ Len(split_cameras.val) = 1

\* C28: when train + val = 1 (no test share) the test remainder of the
\* permutation is empty: every camera is in the train or in the val group.
C28_NoTestRemainder ==
    (Partitioned /\ split_ratio.train + split_ratio.val = RatioDen) =>
        /\ test_idx = <<>>
        /\ Group("train") \cup Group("val") = CameraSet

====
